---- MODULE Spec2Model ----
(***************************************************************************)
(* InvoiceFlow: the bulk synchronisation engine (bulk_upload.py) and the   *)
(* remote client it drives (quickbooks_api.py), over the documents of      *)
(* models.py.                                                              *)
(*                                                                         *)
(* One step of the model is one remote HTTP call together with the local   *)
(* code that handles its response, or one db.session.commit() together     *)
(* with the code that follows it.  The remote platform and the database    *)
(* are the environment: every remote call and every commit draws its       *)
(* outcome from the outcomes the code distinguishes.                       *)
(***************************************************************************)
EXTENDS Integers, Sequences, FiniteSets, TLC

\* ------------------------------------------------------------------ bounds

\* The time at which the last operation may end: the clock ticks once when an
\* operation is called and once with every document attempted.
MaxTime == 4

\* The number of rows a table may come to hold through the insertion routes.
MaxRows == 2

\* ------------------------------------------------------------ the documents

\* Rows of the invoices table and of the bills table.
Invoices == {"i1", "i2"}
Bills == {"b1"}
Docs == Invoices \cup Bills

\* Python's None, for quickbooks_id.
None == "None"
\* Python's None, for upload_error (a message is a non-empty sequence of parts).
NoError == << >>
\* Python's None, for uploaded_at (a time is a value of the clock, >= 1).
NoTime == 0

\* Rows of the invoices table that the engine does not treat as it treats the
\* others: "ix" has no amount (NULL, a row another program wrote), "iz" has the
\* empty string for customer_name (the column is NOT NULL, and manage_invoices
\* stores whatever string the request carries).
Irregular == {"ix", "iz"}

\* Invoice.customer_name, Bill.vendor_name, Bill.expense_account.
customer_name(d) == IF d = "iz" THEN "" ELSE "Acme"
vendor_name(d) == "Globex"
expense_account(d) == "Travel"

\* Invoice.amount / Bill.amount: a Numeric, or None.
amount(d) == IF d = "ix" THEN None ELSE "100.00"

\* float(x): the number, or the TypeError raised for None.
Float(x) ==
    IF x = None
      THEN [ok |-> FALSE,
            err |-> <<"float() argument must be a string or a real number, not 'NoneType'">>]
      ELSE [ok |-> TRUE, err |-> << >>]

\* to_quickbooks_json: the payload is built ("Amount": float(self.amount)), or the
\* exception of float() leaves the method.
ToQuickBooksJson(d) == Float(amount(d))

\* The sync state of a document: quickbooks_id, upload_error, uploaded_at.
Pending == [quickbooks_id |-> None, upload_error |-> NoError, uploaded_at |-> NoTime]

\* The Ids the remote platform hands out for created documents.
RemoteIds == {"Q1", "Q2"}

\* The remote entities the documents name: <<kind, name>>.
EntityKeys == {<<"Customer", "Acme">>, <<"Vendor", "Globex">>, <<"Account", "Travel">>}

VARIABLES
    store,       \* the database: Docs -> sync state, as committed
    mem,         \* the session's objects: Docs -> sync state, as assigned
    entities,    \* remote platform: EntityKeys -> number of entities of that name
    remoteDocs,  \* remote platform: Docs -> number of remote documents created for it
    now,         \* the clock read by datetime.utcnow()
    op,          \* "none" | "upload_all" | "upload_single"
    pc,          \* "idle" | "query" | "create" | "post" | "commit" | "commit_ok" | "commit_err"
    invoices,    \* upload_all's argument
    bills,       \* upload_all's argument
    variant,     \* "invoices" | "bills": the loop (or the single call) in progress
    idx,         \* position of the loop in its list
    doc,         \* the loop variable: the document being attempted
    stage,       \* the reference being resolved: "Customer" | "Vendor" | "Account"
    refs,        \* the payload's references: kind -> resolved entity id (0: still by name)
    result,      \* _upload_invoices / _upload_bills: the local `result`
    results,     \* upload_all: `results`; after the return, the report returned
    ret,         \* how the last operation ended
    calls,       \* history: the remote calls of the operation in progress
    attempts,    \* history: one record per document attempt of the operation
    tables,      \* app.py: the rows the routes have inserted, per variant
    http,        \* app.py: the response of the last request
    handed,      \* app.py: the batch the upload-all route last handed to upload_all
    stats,       \* what get_upload_statistics last returned
    threads      \* two requests served at once: each one's upload_all in progress

\* The variables of the engine and of the remote platform, and those of the routes.
engine == <<store, mem, entities, remoteDocs, now, op, pc, invoices, bills, variant,
            idx, doc, stage, refs, result, results, ret, calls, attempts>>
others == <<tables, http, handed, stats, threads>>

vars == <<store, mem, entities, remoteDocs, now, op, pc, invoices, bills, variant,
          idx, doc, stage, refs, result, results, ret, calls, attempts,
          tables, http, handed, stats, threads>>

\* --------------------------------------------------- quickbooks_api.py

\* _make_request: the failures it raises, by cause.
Causes == {"timeout", "request", "json"}

\* RequestError with the catch-all clause taken for every cause.
RequestError_CatchAll(cause, endpoint) == <<"API error", endpoint>>

\* _make_request's except clauses: the message of the exception it raises.
RequestError(cause, endpoint) ==
    CASE cause = "timeout" -> <<"Request timeout", endpoint>>
      [] cause = "request" -> <<"API request failed", endpoint>>
      [] OTHER             -> <<"Invalid JSON response", endpoint>>

\* A cause with which the platform has answered 2xx: it has done what was asked.
Performed(cause) == cause = "json"

\* The except clause of every method of QuickBooksAPI: raise Exception(f"<prefix>: {e}").
Wrap(prefix, msg) == <<prefix>> \o msg

\* The prefixes of create_invoice / create_bill and of _get_or_create_<kind>.
DocPrefix(v) == IF v = "invoices" THEN "Invoice creation failed" ELSE "Bill creation failed"
EntPrefix(kind) ==
    CASE kind = "Customer" -> "Customer operation failed"
      [] kind = "Vendor"   -> "Vendor operation failed"
      [] OTHER             -> "Account operation failed"

\* The endpoint of the document POST and of an entity POST.
DocEndpoint(v) == IF v = "invoices" THEN "invoice" ELSE "bill"
EntEndpoint(kind) ==
    CASE kind = "Customer" -> "customer"
      [] kind = "Vendor"   -> "vendor"
      [] OTHER             -> "account"

\* A decoded 2xx body of the document POST.  hasQR: 'QueryResponse' in response and
\* '<Type>' in response['QueryResponse'], with qr that list; hasDirect: '<Type>' in
\* response, with direct that object.  An object is its Id (None: no Id key).
Obj(id) == [Id |-> id]
Body(hasQR, qr, hasDirect, direct) ==
    [hasQR |-> hasQR, qr |-> qr, hasDirect |-> hasDirect, direct |-> direct]
PostBodies ==
    {Body(FALSE, << >>, TRUE, Obj(id)) : id \in RemoteIds \cup {None}}
    \cup {Body(TRUE, <<Obj(id)>>, FALSE, Obj(None)) : id \in RemoteIds}
    \cup {Body(TRUE, <<Obj("Q1")>>, TRUE, Obj("Q2")),
          Body(TRUE, << >>, FALSE, Obj(None)),
          Body(FALSE, << >>, FALSE, Obj(None))}

\* NormalizeResponse with the two shapes tried in the other order.
NormalizeResponse_DirectFirst(body) ==
    IF body.hasDirect
      THEN [ok |-> TRUE, obj |-> body.direct, err |-> NoError]
      ELSE IF body.hasQR /\ Len(body.qr) > 0
             THEN [ok |-> TRUE, obj |-> body.qr[1], err |-> NoError]
             ELSE [ok |-> FALSE, obj |-> Obj(None),
                   err |-> <<"Unexpected response format from QuickBooks">>]

\* create_invoice / create_bill: the created object taken from the body, or the
\* exception raised instead.
NormalizeResponse(body) ==
    IF body.hasQR
      THEN IF Len(body.qr) > 0
             THEN [ok |-> TRUE, obj |-> body.qr[1], err |-> NoError]
             ELSE [ok |-> FALSE, obj |-> Obj(None), err |-> <<"list index out of range">>]
      ELSE IF body.hasDirect
             THEN [ok |-> TRUE, obj |-> body.direct, err |-> NoError]
             ELSE [ok |-> FALSE, obj |-> Obj(None),
                   err |-> <<"Unexpected response format from QuickBooks">>]

\* The answers of the platform to the document POST: a failure of _make_request, or
\* a decoded 2xx body.
PostResponses ==
    {[status |-> c, body |-> Body(FALSE, << >>, FALSE, Obj(None))] : c \in Causes}
    \cup {[status |-> "ok", body |-> b] : b \in PostBodies}

\* _get_or_create_<kind>: the name looked up for the current reference.
RefName(d, kind) ==
    CASE kind = "Customer" -> customer_name(d)
      [] kind = "Vendor"   -> vendor_name(d)
      [] OTHER             -> expense_account(d)

\* create_invoice: `if customer_name:`; create_bill: `if vendor_name:`; the
\* account of a line is resolved whatever its name.
Resolves(d, kind) == kind = "Account" \/ RefName(d, kind) # ""

\* The platform's answer to the lookup query: the entities of that name, oldest first.
Matches(key) == [i \in 1..entities[key] |-> i]

\* NeedsCreate that ignores the lookup's answer.
NeedsCreate_Always(matches) == TRUE

\* NeedsCreate that takes a single match only for the entity.
NeedsCreate_UnlessOne(matches) == Len(matches) # 1

\* _get_or_create_<kind>: `if customers: return customers[0]`.
NeedsCreate(matches) == matches = << >>
FirstMatch(matches) == matches[1]

\* --------------------------------------------------------- bulk_upload.py

\* _upload_invoices / _upload_bills: the initial `result`.
InitResult(list) == [total |-> Len(list), successful |-> 0, failed |-> 0, details |-> << >>]

\* ApplySuccess with `uploaded_at = datetime.utcnow()` forgotten.
ApplySuccess_KeepsTime(state, obj, utcnow) ==
    [quickbooks_id |-> obj.Id, uploaded_at |-> state.uploaded_at, upload_error |-> NoError]

\* ApplySuccess with `upload_error = None` forgotten.
ApplySuccess_KeepsError(state, obj, utcnow) ==
    [state EXCEPT !.quickbooks_id = obj.Id, !.uploaded_at = utcnow]

\* The try branch: the document's fields after a created object came back.
ApplySuccess(state, obj, utcnow) ==
    [quickbooks_id |-> obj.Id, uploaded_at |-> utcnow, upload_error |-> NoError]

\* ApplyFailure that also resets the remote id.
ApplyFailure_ClearsId(state, msg) ==
    [state EXCEPT !.upload_error = msg, !.quickbooks_id = None]

\* ApplyFailure that also resets the time of the last upload.
ApplyFailure_ResetsTime(state, msg) ==
    [state EXCEPT !.upload_error = msg, !.uploaded_at = NoTime]

\* The except branch: only upload_error is assigned.
ApplyFailure(state, msg) == [state EXCEPT !.upload_error = msg]

\* The try branch: `result` after the success is recorded.
RecordSuccess(res, d, state) ==
    [res EXCEPT !.successful = @ + 1,
                !.details = Append(@, [id |-> d, status |-> "success",
                                       quickbooks_id |-> state.quickbooks_id,
                                       message |-> <<"Successfully uploaded to QuickBooks">>])]

\* RecordFailure with the counter forgotten: the detail is appended only.
RecordFailure_Uncounted(res, d, msg) ==
    [res EXCEPT !.details = Append(@, [id |-> d, status |-> "failed",
                                       quickbooks_id |-> None,
                                       message |-> msg])]

\* The except branch: `result` after the failure is recorded.
RecordFailure(res, d, msg) ==
    [res EXCEPT !.failed = @ + 1,
                !.details = Append(@, [id |-> d, status |-> "failed",
                                       quickbooks_id |-> None,
                                       message |-> msg])]

\* upload_all: the initial `results`.
InitResults(invs, bls) ==
    [invoices |-> InitResult(invs),
     bills    |-> InitResult(bls),
     summary  |-> [total_processed |-> Len(invs) + Len(bls),
                   total_successful |-> 0, total_failed |-> 0]]

\* upload_all: "Calculate summary".
Summarize(r) ==
    [r EXCEPT !.summary.total_successful = r.invoices.successful + r.bills.successful,
              !.summary.total_failed = r.invoices.failed + r.bills.failed]

\* Persist that writes nothing (the commit left for the end of the batch).
Persist_Deferred(rows, objects) == rows

\* db.session.commit(): the session's objects become the rows.
Persist(rows, objects) == objects
\* Rollback that leaves the session's objects as assigned.
Rollback_Keeps(rows, objects) == objects

\* db.session.rollback(): the session's objects are expired and read the rows again.
Rollback(rows, objects) == rows

\* str(e) of the exception db.session.commit() raises.
CommitError == <<"commit failed">>

\* The first reference create_invoice / create_bill resolves.
FirstStage(v) == IF v = "invoices" THEN "Customer" ELSE "Vendor"
NoRefs == [Customer |-> 0, Vendor |-> 0, Account |-> 0]

\* All the lists of distinct documents of a table (a query's result).
Lists(S) ==
    {<< >>} \cup {<<a>> : a \in S} \cup {<<a, b>> : <<a, b>> \in {p \in S \X S : p[1] # p[2]}}

NoReturn == [state |-> "none", status |-> "none", quickbooks_id |-> None, error |-> NoError]

\* VariantStatistics with `pending` counting the rows that have neither an id nor
\* an error.
VariantStatistics_PendingClean(rows, ids) ==
    [total    |-> Cardinality(ids),
     uploaded |-> Cardinality({d \in ids : rows[d].quickbooks_id # None}),
     pending  |-> Cardinality({d \in ids : rows[d].quickbooks_id = None
                                            /\ rows[d].upload_error = NoError}),
     failed   |-> Cardinality({d \in ids : rows[d].upload_error # NoError})]

\* get_upload_statistics: the three COUNT queries of a table, and the figures
\* returned for it.
VariantStatistics(rows, ids) ==
    [total    |-> Cardinality(ids),
     uploaded |-> Cardinality({d \in ids : rows[d].quickbooks_id # None}),
     pending  |-> Cardinality(ids) - Cardinality({d \in ids : rows[d].quickbooks_id # None}),
     failed   |-> Cardinality({d \in ids : rows[d].upload_error # NoError})]

\* get_upload_statistics: the dictionary returned.
Statistics(rows) ==
    LET i == VariantStatistics(rows, DOMAIN rows \ Bills)
        b == VariantStatistics(rows, DOMAIN rows \cap Bills)
    IN [invoices |-> i,
        bills    |-> b,
        overall  |-> [total    |-> i.total + b.total,
                      uploaded |-> i.uploaded + b.uploaded,
                      pending  |-> (i.total - i.uploaded) + (b.total - b.uploaded),
                      failed   |-> i.failed + b.failed]]

NoStatistics == [invoices |-> << >>, bills |-> << >>, overall |-> << >>]

\* The requests the server handles at once (app.run(threaded) / one worker each).
Threads == {1, 2}

\* A request's upload_all over a batch of one invoice: where it is (pc), its
\* document, the number of matches its lookup returned (seen), whether its create
\* call was carried out (created), the customer id in its payload (ref), its
\* session's view of the document (state) and the status it recorded.
NoThread == [pc |-> "idle", doc |-> "i1", seen |-> 0, created |-> FALSE, ref |-> 0,
             state |-> Pending, status |-> "none"]

\* ------------------------------------------------------------- histories

\* One remote call: the document it is made for, what is asked (verb: "query",
\* "create", "post") of which kind, whether _make_request returned, n (the number
\* of matches a query returned, the id of the entity a create returned), and the
\* payload's references when it was sent.
Call(verb, kind, ok, n) ==
    [doc |-> doc, verb |-> verb, kind |-> kind, ok |-> ok, n |-> n, refs |-> refs]

\* One attempt: how the remote side ended (remote: "success" | "failed"; cause and
\* the call it failed at; the Id of the accepted object), the document before and
\* after the branch taken, and the commits that followed.
Attempt(remote, cause, at, id, msg, post) ==
    [doc |-> doc, variant |-> variant, remote |-> remote, cause |-> cause, at |-> at,
     id |-> id, msg |-> msg, pre |-> mem[doc], post |-> post,
     commit |-> "none", commit2 |-> "none"]

SetLast(seq, field, value) == [seq EXCEPT ![Len(seq)] = [@ EXCEPT ![field] = value]]

\* ------------------------------------------------------------------ state

\* Every row is created pending (the sync columns are nullable and not given by
\* manage_invoices / manage_bills); nothing has been called yet.
InitWith(rows) ==
    /\ store = [d \in rows |-> Pending]
    /\ mem = [d \in rows |-> Pending]
    /\ entities \in {[k \in EntityKeys |-> 0],
                     [k \in EntityKeys |-> IF k[1] = "Account" THEN 0 ELSE 2]}
    /\ remoteDocs = [d \in rows |-> 0]
    /\ now = 0
    /\ op = "none"
    /\ pc = "idle"
    /\ invoices = << >>
    /\ bills = << >>
    /\ variant = "invoices"
    /\ idx = 0
    /\ doc = "i1"
    /\ stage = "Customer"
    /\ refs = NoRefs
    /\ result = InitResult(<< >>)
    /\ results = InitResults(<< >>, << >>)
    /\ ret = NoReturn
    /\ calls = << >>
    /\ attempts = << >>
    /\ tables = [invoices |-> << >>, bills |-> << >>]
    /\ http = [route |-> "none", status |-> 0, number |-> None]
    /\ handed = [invoices |-> << >>, bills |-> << >>]
    /\ stats = NoStatistics
    /\ threads = [t \in Threads |-> NoThread]

Init == InitWith(Docs)

\* ---------------------------------------------------------------- actions

\* CallUploadAll with the connection validated first (get_company_info), whatever
\* the lists hold.
CallUploadAll_Probes(invs, bls) ==
    /\ pc = "idle"
    /\ now + 1 + Len(invs) + Len(bls) <= MaxTime
    /\ now' = now + 1
    /\ op' = "upload_all"
    /\ invoices' = invs
    /\ bills' = bls
    /\ mem' = store
    /\ calls' = <<Call("query", "CompanyInfo", TRUE, 0)>>
    /\ attempts' = << >>
    /\ refs' = NoRefs
    /\ results' = IF invs = << >> /\ bls = << >>
                    THEN Summarize(InitResults(invs, bls)) ELSE InitResults(invs, bls)
    /\ IF invs = << >> /\ bls = << >>
         THEN /\ ret' = [NoReturn EXCEPT !.state = "returned", !.status = "report"]
              /\ pc' = "idle"
              /\ UNCHANGED <<variant, result, idx, doc, stage>>
         ELSE /\ variant' = IF invs # << >> THEN "invoices" ELSE "bills"
              /\ result' = InitResult(IF invs # << >> THEN invs ELSE bls)
              /\ idx' = 1
              /\ doc' = IF invs # << >> THEN invs[1] ELSE bls[1]
              /\ stage' = FirstStage(variant')
              /\ pc' = "query"
              /\ ret' = NoReturn
    /\ UNCHANGED <<store, entities, remoteDocs>>
    /\ UNCHANGED others

\* upload_all(invoices, bills, ...), up to the first remote call; with both lists
\* empty, the whole call.  The documents are read from the database (app.py,
\* upload_all_to_quickbooks: Invoice.query ... .all()).
CallUploadAll(invs, bls) ==
    /\ pc = "idle"
    /\ now + 1 + Len(invs) + Len(bls) <= MaxTime
    /\ now' = now + 1
    /\ op' = "upload_all"
    /\ invoices' = invs
    /\ bills' = bls
    /\ mem' = store
    /\ calls' = << >>
    /\ attempts' = << >>
    /\ refs' = NoRefs
    /\ IF invs # << >>
         THEN /\ variant' = "invoices"
              /\ result' = InitResult(invs)
              /\ results' = InitResults(invs, bls)
              /\ idx' = 1
              /\ doc' = invs[1]
              /\ stage' = FirstStage("invoices")
              /\ pc' = "query"
              /\ ret' = NoReturn
         ELSE IF bls # << >>
           THEN /\ variant' = "bills"
                /\ result' = InitResult(bls)
                /\ results' = InitResults(invs, bls)
                /\ idx' = 1
                /\ doc' = bls[1]
                /\ stage' = FirstStage("bills")
                /\ pc' = "query"
                /\ ret' = NoReturn
           ELSE /\ results' = Summarize(InitResults(invs, bls))
                /\ ret' = [NoReturn EXCEPT !.state = "returned", !.status = "report"]
                /\ pc' = "idle"
                /\ UNCHANGED <<variant, result, idx, doc, stage>>
    /\ UNCHANGED <<store, entities, remoteDocs>>
    /\ UNCHANGED others

\* upload_single_invoice(invoice, ...) / upload_single_bill(bill, ...), up to the
\* first remote call.
CallUploadSingle(d) ==
    /\ pc = "idle"
    /\ now + 2 <= MaxTime
    /\ now' = now + 1
    /\ op' = "upload_single"
    /\ invoices' = << >>
    /\ bills' = << >>
    /\ mem' = store
    /\ calls' = << >>
    /\ attempts' = << >>
    /\ refs' = NoRefs
    /\ variant' = IF d \in Bills THEN "bills" ELSE "invoices"
    /\ result' = InitResult(<< >>)
    /\ results' = InitResults(<< >>, << >>)
    /\ idx' = 1
    /\ doc' = d
    /\ stage' = FirstStage(variant')
    /\ pc' = "query"
    /\ ret' = NoReturn
    /\ UNCHANGED <<store, entities, remoteDocs>>
    /\ UNCHANGED others

\* The except branch of the attempt: upload_error is assigned and, in the batch
\* loop, the failure is recorded; the commit is next.
Fail(msg, cause, at) ==
    /\ mem' = [mem EXCEPT ![doc] = ApplyFailure(@, msg)]
    /\ now' = now + 1
    /\ attempts' = Append(attempts, Attempt("failed", cause, at, None, msg, mem'[doc]))
    /\ IF op = "upload_all"
         THEN /\ result' = RecordFailure(result, doc, msg)
              /\ pc' = "commit"
         ELSE /\ result' = result
              /\ pc' = "commit_err"

\* The try branch of the attempt after create_invoice / create_bill returned obj.
Succeed(obj) ==
    /\ mem' = [mem EXCEPT ![doc] = ApplySuccess(@, obj, now)]
    /\ now' = now + 1
    /\ attempts' = Append(attempts, Attempt("success", "none", "none", obj.Id, NoError, mem'[doc]))
    /\ IF op = "upload_all"
         THEN /\ result' = RecordSuccess(result, doc, mem'[doc])
              /\ pc' = "commit"
         ELSE /\ result' = result
              /\ pc' = "commit_ok"

\* create_invoice / create_bill after a reference is resolved to id: the payload is
\* rewritten, and the next reference or the document POST follows.
Resolved(id) ==
    /\ refs' = [refs EXCEPT ![stage] = id]
    /\ IF stage = "Vendor"
         THEN stage' = "Account" /\ pc' = "query"
         ELSE stage' = stage /\ pc' = "post"

\* The start of an attempt on a document to_quickbooks_json raises for: the
\* except branch runs.  In the batch loop upload_error is assigned and the failure
\* counted; building the detail entry then calls float(invoice.amount) again, and
\* that exception leaves the except branch, the loop and upload_all.  In
\* upload_single_* upload_error is assigned and the commit follows.
Translate ==
    /\ pc = "query" /\ stage = FirstStage(variant) /\ refs = NoRefs
    /\ ~ToQuickBooksJson(doc).ok
    /\ mem' = [mem EXCEPT ![doc] = ApplyFailure(@, ToQuickBooksJson(doc).err)]
    /\ now' = now + 1
    /\ attempts' = Append(attempts, Attempt("failed", "translate", "translate", None,
                                            ToQuickBooksJson(doc).err, mem'[doc]))
    /\ IF op = "upload_all"
         THEN /\ result' = [result EXCEPT !.failed = @ + 1]
              /\ pc' = "idle"
              /\ ret' = [NoReturn EXCEPT !.state = "raised"]
         ELSE /\ result' = result
              /\ pc' = "commit_err"
              /\ ret' = ret
    /\ UNCHANGED <<store, entities, remoteDocs, op, invoices, bills, variant,
                   idx, doc, stage, refs, results, calls>>
    /\ UNCHANGED others

\* create_invoice / create_bill for a document whose customer / vendor name is
\* empty: the `if` is not entered, the reference stays as it is in the payload.
SkipResolution ==
    /\ pc = "query"
    /\ ToQuickBooksJson(doc).ok
    /\ ~Resolves(doc, stage)
    /\ IF stage = "Vendor"
         THEN stage' = "Account" /\ pc' = "query"
         ELSE stage' = stage /\ pc' = "post"
    /\ UNCHANGED <<store, mem, entities, remoteDocs, now, op, invoices, bills, variant,
                   idx, doc, refs, result, results, ret, calls, attempts>>
    /\ UNCHANGED others

\* _get_or_create_<kind>: the lookup GET and what follows its answer.
Query(out) ==
    /\ pc = "query"
    /\ ToQuickBooksJson(doc).ok
    /\ Resolves(doc, stage)
    /\ LET matches == Matches(<<stage, RefName(doc, stage)>>)
       IN /\ calls' = Append(calls, Call("query", stage, out = "ok",
                                          IF out = "ok" THEN Len(matches) ELSE 0))
          /\ IF out = "ok"
               THEN IF NeedsCreate(matches)
                      THEN /\ pc' = "create"
                           /\ UNCHANGED <<refs, stage, mem, attempts, result, now>>
                      ELSE /\ Resolved(FirstMatch(matches))
                           /\ UNCHANGED <<mem, attempts, result, now>>
               ELSE /\ Fail(Wrap(DocPrefix(variant),
                                 Wrap(EntPrefix(stage), RequestError(out, "query"))),
                            out, "query")
                    /\ UNCHANGED <<refs, stage>>
    /\ UNCHANGED <<store, entities, remoteDocs, op, invoices, bills, variant,
                   idx, doc, results, ret>>
    /\ UNCHANGED others

\* _get_or_create_<kind>: the create POST and what follows its answer.  out: "ok",
\* "nokey" (a 2xx body without the '<Kind>' key) or a cause of _make_request.
Create(out) ==
    /\ pc = "create"
    /\ LET key == <<stage, RefName(doc, stage)>>
           done == out \in {"ok", "nokey"} \/ Performed(out)
       IN /\ entities' = IF done THEN [entities EXCEPT ![key] = @ + 1] ELSE entities
          /\ calls' = Append(calls, Call("create", stage, out \in {"ok", "nokey"},
                                          IF out = "ok" THEN entities'[key] ELSE 0))
          /\ IF out = "ok"
               THEN /\ Resolved(entities'[key])
                    /\ UNCHANGED <<mem, attempts, result, now>>
               ELSE /\ Fail(Wrap(DocPrefix(variant),
                                 Wrap(EntPrefix(stage),
                                      IF out = "nokey" THEN <<"KeyError", stage>>
                                      ELSE RequestError(out, EntEndpoint(stage)))),
                            IF out = "nokey" THEN "key" ELSE out, "create")
                    /\ UNCHANGED <<refs, stage>>
    /\ UNCHANGED <<store, remoteDocs, op, invoices, bills, variant,
                   idx, doc, results, ret>>
    /\ UNCHANGED others

\* create_invoice / create_bill: the document POST and what follows its answer.
Post(resp) ==
    /\ pc = "post"
    /\ calls' = Append(calls, Call("post", DocEndpoint(variant), resp.status = "ok", 0))
    /\ remoteDocs' = IF resp.status = "ok" \/ Performed(resp.status)
                       THEN [remoteDocs EXCEPT ![doc] = @ + 1] ELSE remoteDocs
    /\ IF resp.status = "ok"
         THEN LET r == NormalizeResponse(resp.body)
              IN IF r.ok
                   THEN Succeed(r.obj)
                   ELSE Fail(Wrap(DocPrefix(variant), r.err), "format", "post")
         ELSE Fail(Wrap(DocPrefix(variant), RequestError(resp.status, DocEndpoint(variant))),
                   resp.status, "post")
    /\ UNCHANGED <<store, entities, op, invoices, bills, variant,
                   idx, doc, stage, refs, results, ret>>
    /\ UNCHANGED others

\* The list the loop in progress runs over.
CurList == IF variant = "invoices" THEN invoices ELSE bills

\* Advance with the references resolved for the last document kept for the next
\* one of the same loop.
Advance_Cached ==
    IF idx < Len(CurList)
      THEN /\ idx' = idx + 1
           /\ doc' = CurList[idx + 1]
           /\ IF refs[FirstStage(variant)] # 0 /\ (variant = "bills" => refs.Account # 0)
                THEN refs' = refs /\ stage' = stage /\ pc' = "post"
                ELSE refs' = NoRefs /\ stage' = FirstStage(variant) /\ pc' = "query"
           /\ UNCHANGED <<variant, result, results, ret>>
      ELSE IF variant = "invoices" /\ bills # << >>
        THEN /\ results' = [results EXCEPT !.invoices = result]
             /\ variant' = "bills"
             /\ result' = InitResult(bills)
             /\ idx' = 1
             /\ doc' = bills[1]
             /\ stage' = FirstStage("bills")
             /\ refs' = NoRefs
             /\ pc' = "query"
             /\ UNCHANGED ret
        ELSE /\ results' = Summarize([results EXCEPT ![variant] = result])
             /\ ret' = [NoReturn EXCEPT !.state = "returned", !.status = "report"]
             /\ pc' = "idle"
             /\ UNCHANGED <<variant, result, idx, doc, stage, refs>>

\* The batch loop after the commit of a document: the next document, the next
\* loop, or the summary and the return of upload_all.
Advance ==
    IF idx < Len(CurList)
      THEN /\ idx' = idx + 1
           /\ doc' = CurList[idx + 1]
           /\ stage' = FirstStage(variant)
           /\ refs' = NoRefs
           /\ pc' = "query"
           /\ UNCHANGED <<variant, result, results, ret>>
      ELSE IF variant = "invoices" /\ bills # << >>
        THEN /\ results' = [results EXCEPT !.invoices = result]
             /\ variant' = "bills"
             /\ result' = InitResult(bills)
             /\ idx' = 1
             /\ doc' = bills[1]
             /\ stage' = FirstStage("bills")
             /\ refs' = NoRefs
             /\ pc' = "query"
             /\ UNCHANGED ret
        ELSE /\ results' = Summarize([results EXCEPT ![variant] = result])
             /\ ret' = [NoReturn EXCEPT !.state = "returned", !.status = "report"]
             /\ pc' = "idle"
             /\ UNCHANGED <<variant, result, idx, doc, stage, refs>>

\* CommitBatch without the try around the commit: a commit that raises ends the
\* loop, and upload_all with it.
CommitBatch_Aborts(ok) ==
    /\ pc = "commit"
    /\ attempts' = SetLast(attempts, "commit", IF ok THEN "ok" ELSE "failed")
    /\ IF ok
         THEN store' = Persist(store, mem) /\ mem' = mem /\ Advance
         ELSE /\ mem' = Rollback(store, mem) /\ store' = store
              /\ ret' = [NoReturn EXCEPT !.state = "raised"]
              /\ pc' = "idle"
              /\ UNCHANGED <<variant, result, results, idx, doc, stage, refs>>
    /\ UNCHANGED <<entities, remoteDocs, now, op, invoices, bills, calls>>
    /\ UNCHANGED others

\* _upload_invoices / _upload_bills: "Commit changes to database after each
\* invoice", the except around it, and the loop's next turn.
CommitBatch(ok) ==
    /\ pc = "commit"
    /\ IF ok
         THEN store' = Persist(store, mem) /\ mem' = mem
         ELSE mem' = Rollback(store, mem) /\ store' = store
    /\ attempts' = SetLast(attempts, "commit", IF ok THEN "ok" ELSE "failed")
    /\ Advance
    /\ UNCHANGED <<entities, remoteDocs, now, op, invoices, bills, calls>>
    /\ UNCHANGED others

\* upload_single_*: the commit of the try branch.  When it raises, the session has
\* rolled the transaction back and expired its objects; the except branch runs:
\* upload_error is assigned, and a second commit follows.
CommitSingle(ok) ==
    /\ pc = "commit_ok"
    /\ IF ok
         THEN /\ store' = Persist(store, mem)
              /\ mem' = mem
              /\ attempts' = SetLast(attempts, "commit", "ok")
              /\ ret' = [state |-> "returned", status |-> "success",
                         quickbooks_id |-> mem[doc].quickbooks_id, error |-> NoError]
              /\ pc' = "idle"
         ELSE /\ store' = store
              /\ mem' = [Rollback(store, mem) EXCEPT ![doc] = ApplyFailure(@, CommitError)]
              /\ attempts' = SetLast(attempts, "commit", "failed")
              /\ ret' = ret
              /\ pc' = "commit_err"
    /\ UNCHANGED <<entities, remoteDocs, now, op, invoices, bills, variant, idx, doc,
                   stage, refs, result, results, calls>>
    /\ UNCHANGED others

\* upload_single_*: the commit of the except branch; when it raises, the exception
\* leaves upload_single_*.
CommitSingleError(ok) ==
    /\ pc = "commit_err"
    /\ IF ok
         THEN /\ store' = Persist(store, mem)
              /\ ret' = [state |-> "returned", status |-> "failed",
                         quickbooks_id |-> None, error |-> mem[doc].upload_error]
         ELSE /\ store' = store
              /\ ret' = [NoReturn EXCEPT !.state = "raised"]
    /\ attempts' = SetLast(attempts, IF attempts[Len(attempts)].commit = "none"
                                       THEN "commit" ELSE "commit2",
                           IF ok THEN "ok" ELSE "failed")
    /\ pc' = "idle"
    /\ UNCHANGED <<mem, entities, remoteDocs, now, op, invoices, bills, variant, idx,
                   doc, stage, refs, result, results, calls>>
    /\ UNCHANGED others

Next ==
    \/ \E invs \in Lists(Invoices), bls \in Lists(Bills) : CallUploadAll(invs, bls)
    \/ \E d \in Docs : CallUploadSingle(d)
    \/ \E out \in {"ok"} \cup Causes : Query(out)
    \/ \E out \in {"ok", "nokey"} \cup Causes : Create(out)
    \/ \E resp \in PostResponses : Post(resp)
    \/ \E ok \in BOOLEAN : CommitBatch(ok)
    \/ \E ok \in BOOLEAN : CommitSingle(ok)
    \/ \E ok \in BOOLEAN : CommitSingleError(ok)

Spec == Init /\ [][Next]_vars

\* get_upload_statistics(), called between two operations: it queries the database.
GetUploadStatistics ==
    /\ pc = "idle"
    /\ stats' = Statistics(store)
    /\ UNCHANGED engine
    /\ UNCHANGED <<tables, http, handed, threads>>

\* Abort that undoes what the batch did on the platform.
Abort_Compensates ==
    /\ pc # "idle"
    /\ pc' = "idle"
    /\ ret' = [NoReturn EXCEPT !.state = "aborted"]
    /\ mem' = store
    /\ remoteDocs' = [d \in DOMAIN remoteDocs |->
                        IF \E i \in 1..Len(attempts) : attempts[i].doc = d
                          THEN 0 ELSE remoteDocs[d]]
    /\ UNCHANGED <<store, entities, now, op, invoices, bills, variant, idx, doc,
                   stage, refs, result, results, calls, attempts>>
    /\ UNCHANGED others

\* The process is terminated, or the caller gives up, while an operation runs: the
\* loop has no cancellation point and no handler, so nothing more is done; the
\* session's uncommitted assignments are lost with it.
Abort ==
    /\ pc # "idle"
    /\ pc' = "idle"
    /\ ret' = [NoReturn EXCEPT !.state = "aborted"]
    /\ mem' = store
    /\ UNCHANGED <<store, entities, remoteDocs, now, op, invoices, bills, variant, idx,
                   doc, stage, refs, result, results, calls, attempts>>
    /\ UNCHANGED others

\* The engine with its statistics read between operations and with operations
\* that may be aborted; the batches are drawn from one invoice and one bill, the
\* other rows stay pending.
NextOps ==
    \/ \E invs \in Lists({"i1"}), bls \in Lists(Bills) : CallUploadAll(invs, bls)
    \/ \E d \in {"i1"} \cup Bills : CallUploadSingle(d)
    \/ \E out \in {"ok"} \cup Causes : Query(out)
    \/ \E out \in {"ok", "nokey"} \cup Causes : Create(out)
    \/ \E resp \in PostResponses : Post(resp)
    \/ \E ok \in BOOLEAN : CommitBatch(ok)
    \/ \E ok \in BOOLEAN : CommitSingle(ok)
    \/ \E ok \in BOOLEAN : CommitSingleError(ok)
    \/ GetUploadStatistics
    \/ Abort

SpecOps == Init /\ [][NextOps]_vars

\* ------------------------------------------------ two batches at once

\* The part of the state a thread's steps leave alone.
sequential == <<mem, now, op, pc, invoices, bills, variant, idx, doc, stage, refs,
                result, results, ret, calls, attempts, tables, http, handed, stats>>

\* A request enters upload_all([d], [], ...): to_quickbooks_json, then the lookup.
RaceCall(t, d) ==
    /\ threads[t].pc = "idle"
    /\ threads' = [threads EXCEPT ![t] = [NoThread EXCEPT !.pc = "query", !.doc = d,
                                                          !.state = store[d]]]
    /\ UNCHANGED <<store, entities, remoteDocs>>
    /\ UNCHANGED sequential

\* The except branch of the thread's attempt.
RaceFailed(t, msg) ==
    [threads[t] EXCEPT !.pc = "commit", !.status = "failed",
                       !.state = ApplyFailure(@, msg)]

\* _get_or_create_customer in thread t: the lookup GET and what follows its answer.
RaceQuery(t, out) ==
    /\ threads[t].pc = "query"
    /\ LET matches == Matches(<<"Customer", customer_name(threads[t].doc)>>)
       IN threads' = [threads EXCEPT ![t] =
            IF out = "ok"
              THEN IF NeedsCreate(matches)
                     THEN [@ EXCEPT !.pc = "create", !.seen = Len(matches)]
                     ELSE [@ EXCEPT !.pc = "post", !.seen = Len(matches),
                                    !.ref = FirstMatch(matches)]
              ELSE RaceFailed(t, Wrap(DocPrefix("invoices"),
                                      Wrap(EntPrefix("Customer"),
                                           RequestError(out, "query"))))]
    /\ UNCHANGED <<store, entities, remoteDocs>>
    /\ UNCHANGED sequential

\* RaceCreate on a platform that gives back the entity of that name when there is
\* one.
RaceCreate_Idempotent(t, out) ==
    /\ threads[t].pc = "create"
    /\ LET key == <<"Customer", customer_name(threads[t].doc)>>
           done == out \in {"ok", "nokey"} \/ Performed(out)
       IN /\ entities' = IF done THEN [entities EXCEPT ![key] = 1] ELSE entities
          /\ threads' = [threads EXCEPT ![t] =
               IF out = "ok"
                 THEN [@ EXCEPT !.pc = "post", !.created = TRUE, !.ref = entities'[key]]
                 ELSE [RaceFailed(t, Wrap(DocPrefix("invoices"),
                                          Wrap(EntPrefix("Customer"),
                                               IF out = "nokey" THEN <<"KeyError", "Customer">>
                                               ELSE RequestError(out, "customer"))))
                         EXCEPT !.created = done]]
    /\ UNCHANGED <<store, remoteDocs>>
    /\ UNCHANGED sequential

\* _get_or_create_customer in thread t: the create POST and what follows its answer.
RaceCreate(t, out) ==
    /\ threads[t].pc = "create"
    /\ LET key == <<"Customer", customer_name(threads[t].doc)>>
           done == out \in {"ok", "nokey"} \/ Performed(out)
       IN /\ entities' = IF done THEN [entities EXCEPT ![key] = @ + 1] ELSE entities
          /\ threads' = [threads EXCEPT ![t] =
               IF out = "ok"
                 THEN [@ EXCEPT !.pc = "post", !.created = TRUE, !.ref = entities'[key]]
                 ELSE [RaceFailed(t, Wrap(DocPrefix("invoices"),
                                          Wrap(EntPrefix("Customer"),
                                               IF out = "nokey" THEN <<"KeyError", "Customer">>
                                               ELSE RequestError(out, "customer"))))
                         EXCEPT !.created = done]]
    /\ UNCHANGED <<store, remoteDocs>>
    /\ UNCHANGED sequential

\* create_invoice in thread t: the document POST, and the branch of the loop body
\* its answer leads to.
RacePost(t, resp) ==
    /\ threads[t].pc = "post"
    /\ remoteDocs' = IF resp.status = "ok" \/ Performed(resp.status)
                       THEN [remoteDocs EXCEPT ![threads[t].doc] = @ + 1] ELSE remoteDocs
    /\ threads' = [threads EXCEPT ![t] =
         IF resp.status = "ok"
           THEN IF NormalizeResponse(resp.body).ok
                  THEN [@ EXCEPT !.pc = "commit", !.status = "success",
                                 !.state = ApplySuccess(@, NormalizeResponse(resp.body).obj, 1)]
                  ELSE RaceFailed(t, Wrap(DocPrefix("invoices"),
                                          NormalizeResponse(resp.body).err))
           ELSE RaceFailed(t, Wrap(DocPrefix("invoices"),
                                   RequestError(resp.status, "invoice")))]
    /\ UNCHANGED <<store, entities>>
    /\ UNCHANGED sequential

\* The commit of thread t's session, and the return of its upload_all.
RaceCommit(t, ok) ==
    /\ threads[t].pc = "commit"
    /\ store' = IF ok THEN [store EXCEPT ![threads[t].doc] = threads[t].state] ELSE store
    /\ threads' = [threads EXCEPT ![t] = [@ EXCEPT !.pc = "done"]]
    /\ UNCHANGED <<entities, remoteDocs>>
    /\ UNCHANGED sequential

\* The platform does not know the customer yet.
InitRace == Init /\ entities = [k \in EntityKeys |-> 0]

NextRace ==
    \/ \E t \in Threads, d \in Invoices : RaceCall(t, d)
    \/ \E t \in Threads, out \in {"ok"} \cup Causes : RaceQuery(t, out)
    \/ \E t \in Threads, out \in {"ok", "nokey"} \cup Causes : RaceCreate(t, out)
    \/ \E t \in Threads, resp \in PostResponses : RacePost(t, resp)
    \/ \E t \in Threads, ok \in BOOLEAN : RaceCommit(t, ok)

SpecRace == InitRace /\ [][NextRace]_vars

\* The engine over a table that also holds the irregular rows.
IrregularInvoices == {"i1"} \cup Irregular

InitIrregular == InitWith(Docs \cup Irregular)

NextIrregular ==
    \/ \E invs \in Lists(IrregularInvoices), bls \in Lists(Bills) : CallUploadAll(invs, bls)
    \/ \E d \in IrregularInvoices : CallUploadSingle(d)
    \/ Translate
    \/ SkipResolution
    \/ \E out \in {"ok"} \cup Causes : Query(out)
    \/ \E out \in {"ok", "nokey"} \cup Causes : Create(out)
    \/ \E resp \in PostResponses : Post(resp)
    \/ \E ok \in BOOLEAN : CommitBatch(ok)
    \/ \E ok \in BOOLEAN : CommitSingle(ok)
    \/ \E ok \in BOOLEAN : CommitSingleError(ok)

SpecIrregular == InitIrregular /\ [][NextIrregular]_vars

\* ------------------------------------------------------------------ app.py

\* The document numbers a request may carry (None: JSON null).
Numbers == {"INV-1", "INV-2"}
Variants == {"invoices", "bills"}

\* The numbers of the rows of a table.
NumbersOf(rows) == {rows[i].number : i \in 1..Len(rows)}

\* Accepts without the UNIQUE constraint.
Accepts_Any(rows, number) == number # None

\* The INSERT of db.session.commit(): invoice_number / bill_number is NOT NULL and
\* UNIQUE.
Accepts(rows, number) == number # None /\ number \notin NumbersOf(rows)

\* POST /api/invoices, POST /api/bills: the row is added and committed (201), or the
\* commit raises, the session is rolled back and the answer is 400.
ManagePost(v, number) ==
    /\ Len(tables[v]) < MaxRows \/ ~Accepts(tables[v], number)
    /\ IF Accepts(tables[v], number)
         THEN /\ tables' = [tables EXCEPT
                               ![v] = Append(@, [number |-> number, quickbooks_id |-> None])]
              /\ http' = [route |-> v, status |-> 201, number |-> number]
         ELSE /\ tables' = tables
              /\ http' = [route |-> v, status |-> 400, number |-> number]
    /\ UNCHANGED <<handed, stats, threads>>
    /\ UNCHANGED engine

\* Invoice.query.filter_by(quickbooks_id=None).all().
PendingRows(rows) == SelectSeq(rows, LAMBDA r : r.quickbooks_id = None)

\* A table after upload_all ran over its pending rows: the rows of done have been
\* given a quickbooks_id, the others are as they were.
Uploaded(rows, done) ==
    [i \in 1..Len(rows) |->
        IF rows[i].quickbooks_id = None /\ rows[i].number \in done
          THEN [rows[i] EXCEPT !.quickbooks_id = "Q1"] ELSE rows[i]]

\* POST /api/upload-all: 401 without a token in the session; the pending rows are
\* queried and, unless there are none, handed to upload_all, which leaves some of
\* them (done, by number) uploaded and returns (200) or raises (500).
UploadAllRoute(authenticated, raised, done) ==
    /\ \A v \in Variants : done[v] \subseteq NumbersOf(PendingRows(tables[v]))
    /\ IF ~authenticated
         THEN /\ http' = [route |-> "upload-all", status |-> 401, number |-> None]
              /\ UNCHANGED <<tables, handed>>
         ELSE IF PendingRows(tables.invoices) = << >> /\ PendingRows(tables.bills) = << >>
           THEN /\ http' = [route |-> "upload-all", status |-> 200, number |-> None]
                /\ UNCHANGED <<tables, handed>>
           ELSE /\ handed' = [v \in Variants |-> PendingRows(tables[v])]
                /\ tables' = [v \in Variants |-> Uploaded(tables[v], done[v])]
                /\ http' = [route |-> "upload-all",
                            status |-> IF raised THEN 500 ELSE 200, number |-> None]
    /\ UNCHANGED <<stats, threads>>
    /\ UNCHANGED engine

NextStore ==
    \/ \E v \in Variants, number \in Numbers \cup {None} : ManagePost(v, number)
    \/ \E authenticated \in BOOLEAN, raised \in BOOLEAN,
          done \in [Variants -> SUBSET Numbers] :
            UploadAllRoute(authenticated, raised, done)

SpecStore == Init /\ [][NextStore]_vars

\* ------------------------------------- app.py: a sequence of upload-all requests

\* Invoice.query.filter_by(quickbooks_id=None).all() / Bill.query...: the rows of
\* the table whose committed quickbooks_id is NULL.
PendingDocs(S) == {d \in S \cap DOMAIN store : store[d].quickbooks_id = None}

\* The elements of a list.
Range(list) == {list[i] : i \in 1..Len(list)}

\* POST /api/upload-all with a token in the session and some pending row: the two
\* queries, and upload_all over exactly what they returned.
RequestUploadAll(invs, bls) ==
    /\ Range(invs) = PendingDocs(Invoices)
    /\ Range(bls) = PendingDocs(Bills)
    /\ invs # << >> \/ bls # << >>
    /\ CallUploadAll(invs, bls)

\* POST /api/upload-all when both queries return no row: 'No pending invoices or
\* bills to upload', and upload_all is not called.
RequestNoPending ==
    /\ pc = "idle"
    /\ PendingDocs(Invoices) = {} /\ PendingDocs(Bills) = {}
    /\ http' = [route |-> "upload-all", status |-> 200, number |-> None]
    /\ UNCHANGED <<tables, handed, stats, threads>>
    /\ UNCHANGED engine

\* The tables hold one invoice, one bill, or one of each.
InitRequests == \E rows \in {{"i1"}, {"b1"}, {"i1", "b1"}} : InitWith(rows)

NextRequests ==
    \/ \E invs \in Lists(Invoices), bls \in Lists(Bills) : RequestUploadAll(invs, bls)
    \/ RequestNoPending
    \/ \E out \in {"ok"} \cup Causes : Query(out)
    \/ \E out \in {"ok", "nokey"} \cup Causes : Create(out)
    \/ \E resp \in PostResponses : Post(resp)
    \/ \E ok \in BOOLEAN : CommitBatch(ok)

SpecRequests == InitRequests /\ [][NextRequests]_vars

\* --------------------------------- upload_all over documents that share names

\* The bills table with a second row: both bills name one vendor and one account,
\* as both invoices name one customer.
MoreBills == Bills \cup {"b2"}

\* upload_all called with the pending rows of one table, the other table having
\* none.
CallUploadAllOfOne(invs, bls) ==
    /\ invs = << >> \/ bls = << >>
    /\ CallUploadAll(invs, bls)

\* The platform knows none of the names, or several customers and vendors of them.
InitShared == InitWith(Docs \cup MoreBills)

NextShared ==
    \/ \E invs \in Lists(Invoices), bls \in Lists(MoreBills) : CallUploadAllOfOne(invs, bls)
    \/ \E out \in {"ok"} \cup Causes : Query(out)
    \/ \E out \in {"ok", "nokey"} \cup Causes : Create(out)
    \/ \E resp \in PostResponses : Post(resp)
    \/ \E ok \in BOOLEAN : CommitBatch(ok)

SpecShared == InitShared /\ [][NextShared]_vars

\* ------------------------------------------------------- reading the report

\* The documents of the batch, in the order of the two loops.
AllDocs == invoices \o bills

\* The report of a variant as it stands: the loop's `result` while the loop runs,
\* results[v] before and after.
Report(v) == IF pc # "idle" /\ variant = v THEN result ELSE results[v]

\* The variant and the detail entry of the i-th attempt of a batch.
VariantAt(i) == IF i <= Len(invoices) THEN "invoices" ELSE "bills"
DetailAt(i) ==
    IF i <= Len(invoices)
      THEN Report("invoices").details[i]
      ELSE Report("bills").details[i - Len(invoices)]

\* The attempts of a variant that ended one way.
AttemptsOf(v, remote) ==
    {i \in 1..Len(attempts) : attempts[i].variant = v /\ attempts[i].remote = remote}

UploadAllReturned == op = "upload_all" /\ pc = "idle" /\ ret.state = "returned"

Parts(msg) == {msg[k] : k \in 1..Len(msg)}

\* ------------------------------------------------------------------ claims

\* C1: the report upload_all returns has summary.total_processed = len(invoices) +
\* len(bills) and total_successful + total_failed = total_processed, and for each
\* variant successful + failed = total = the number of details, whatever the remote
\* and the commit outcomes were.
C1_ReportTotals ==
    UploadAllReturned =>
        /\ results.summary.total_processed = Len(invoices) + Len(bills)
        /\ results.summary.total_successful + results.summary.total_failed
             = results.summary.total_processed
        /\ \A v \in {"invoices", "bills"} :
             /\ results[v].successful + results[v].failed = results[v].total
             /\ results[v].total = Len(results[v].details)

\* C1's case: a returned report of two invoices and a bill with a success, a
\* failure and a failed commit among them.
C1_Witness ==
    /\ UploadAllReturned
    /\ Len(invoices) = 2 /\ Len(bills) = 1
    /\ results.summary.total_successful >= 1
    /\ results.summary.total_failed >= 1
    /\ \E i \in 1..Len(attempts) : attempts[i].commit = "failed"

\* The text by which a message names the cause of a failure, and the text by
\* which it names the reference whose resolution failed.
CauseText(cause) ==
    CASE cause = "timeout" -> "Request timeout"
      [] cause = "request" -> "API request failed"
      [] cause = "json"    -> "Invalid JSON response"
      [] cause = "key"     -> "KeyError"
      [] OTHER             -> "format"
NamesCause(msg, a) ==
    /\ msg # NoError
    /\ a.cause = "format" =>
         Parts(msg) \cap {"Unexpected response format from QuickBooks",
                          "list index out of range"} # {}
    /\ a.cause # "format" => CauseText(a.cause) \in Parts(msg)
    /\ a.at \in {"query", "create"} =>
         Parts(msg) \cap {"Customer operation failed", "Vendor operation failed",
                          "Account operation failed"} # {}

\* The position in the batch of the document a remote call is made for.
PosOf(d) == CHOOSE i \in 1..Len(AllDocs) : AllDocs[i] = d

\* C2: in upload_all a document whose remote call fails gets a 'failed' detail whose
\* message names the cause (a timeout: "Request timeout"), its upload_error is that
\* message, the variant's failed count is the number of failures so far, and the
\* batch goes on: the documents are attempted once each, in input order, invoices
\* before bills, and at the return all of them have been attempted.
C2_FailureIsolated ==
    op = "upload_all" =>
        /\ Len(attempts) <= Len(AllDocs)
        /\ \A i \in 1..Len(attempts) : attempts[i].doc = AllDocs[i]
        /\ pc = "idle" => Len(attempts) = Len(AllDocs)
        /\ \A j, k \in 1..Len(calls) :
             j < k => PosOf(calls[j].doc) <= PosOf(calls[k].doc)
        /\ \A k \in 1..Len(calls) :
             /\ PosOf(calls[k].doc) <= Len(attempts) + 1
             /\ PosOf(calls[k].doc) = Len(attempts) + 1 => pc \in {"query", "create", "post"}
        /\ \A v \in {"invoices", "bills"} :
             Report(v).failed = Cardinality(AttemptsOf(v, "failed"))
        /\ \A i \in 1..Len(attempts) :
             attempts[i].remote = "failed" =>
                /\ DetailAt(i).id = attempts[i].doc
                /\ DetailAt(i).status = "failed"
                /\ NamesCause(DetailAt(i).message, attempts[i])
                /\ attempts[i].post.upload_error = DetailAt(i).message
                /\ attempts[i].post.quickbooks_id = attempts[i].pre.quickbooks_id

\* C2's case: a returned batch of two invoices and a bill whose first invoice
\* timed out at the document POST and whose later documents were attempted, one
\* of them with success.
C2_Witness ==
    /\ UploadAllReturned
    /\ Len(invoices) = 2 /\ Len(bills) = 1
    /\ attempts[1].remote = "failed" /\ attempts[1].cause = "timeout"
    /\ attempts[1].at = "post"
    /\ attempts[2].remote = "success"
    /\ attempts[3].remote = "failed" /\ attempts[3].at = "query"
    /\ results.invoices.failed = 1

\* C3: after a sync attempt exactly one of (quickbooks_id set and upload_error
\* None) and (upload_error set) holds of the document as the attempt left it; a
\* successful attempt never leaves quickbooks_id None and upload_error None.
C3_ExactlyOne ==
    \A i \in 1..Len(attempts) :
        LET p == attempts[i].post
        IN  \/ p.quickbooks_id # None /\ p.upload_error = NoError
            \/ p.upload_error # NoError

\* A sync state with a remote id and an error at once.
Both(state) == state.quickbooks_id # None /\ state.upload_error # NoError

\* C4, as claimed: no document ever has quickbooks_id and upload_error both set.
C4_MutuallyExclusive ==
    \A d \in Docs : ~Both(mem[d]) /\ ~Both(store[d])

\* C4, amended: a step leaves a document with quickbooks_id and upload_error both
\* set only if the document had a quickbooks_id before the step (a failure on an
\* uploaded document leaves its id in place); a document whose quickbooks_id is
\* None, in the session and in the database, never comes to have both.
C4_BothOnlyAfterUpload ==
    [][\A d \in Docs :
          (Both(mem'[d]) \/ Both(store'[d]))
             => (mem[d].quickbooks_id # None \/ store[d].quickbooks_id # None)]_vars

\* C4's case: the last attempt failed on a document that was uploaded without an
\* error before, and the database now holds both its id and the error.
C4_Witness ==
    /\ pc = "idle"
    /\ Len(attempts) > 0
    /\ LET a == attempts[Len(attempts)]
       IN /\ a.remote = "failed"
          /\ a.pre.quickbooks_id # None /\ a.pre.upload_error = NoError
          /\ Both(store[a.doc])
          /\ store[a.doc].quickbooks_id = a.pre.quickbooks_id

\* C5: in upload_all the commit after a document's attempt, failed or not, leaves
\* the report as the attempt left it (details and counters of both variants) and
\* the batch goes on: the next document's first remote call is next, or, after the
\* last document, upload_all returns its report.
C5_CommitLeavesReport ==
    [][(op = "upload_all" /\ pc = "commit") =>
          /\ \A v \in {"invoices", "bills"} :
               /\ Report(v)'.details = Report(v).details
               /\ Report(v)'.successful = Report(v).successful
               /\ Report(v)'.failed = Report(v).failed
               /\ Report(v)'.total = Report(v).total
          /\ IF Len(attempts) < Len(AllDocs)
               THEN pc' = "query" /\ doc' = AllDocs[Len(attempts) + 1]
               ELSE pc' = "idle" /\ ret'.state = "returned"]_vars

\* C5's case: a returned batch in which the commit after a successful first
\* document failed, the detail of that document still says success, and the next
\* document was attempted.
C5_Witness ==
    /\ UploadAllReturned
    /\ Len(attempts) >= 2
    /\ attempts[1].remote = "success" /\ attempts[1].commit = "failed"
    /\ DetailAt(1).status = "success"
    /\ DetailAt(1).quickbooks_id = attempts[1].id
    /\ Report(VariantAt(1)).successful >= 1

C7_IdOnlyFromResponse ==
    [][\A d \in Docs :
          /\ mem'[d].quickbooks_id # mem[d].quickbooks_id =>
                \/ /\ pc = "post" /\ d = doc
                   /\ Len(attempts') = Len(attempts) + 1
                   /\ calls'[Len(calls')].ok
                   /\ LET a == attempts'[Len(attempts')]
                      IN /\ a.remote = "success"
                         /\ mem'[d] = [quickbooks_id |-> a.id, uploaded_at |-> now,
                                       upload_error |-> NoError]
                \/ mem'[d].quickbooks_id = store[d].quickbooks_id
          /\ store'[d].quickbooks_id # store[d].quickbooks_id =>
                /\ pc \in {"commit", "commit_ok"} /\ d = doc
                /\ attempts[Len(attempts)].remote = "success"
                /\ store'[d].quickbooks_id = attempts[Len(attempts)].id
                /\ store'[d].upload_error = NoError
                /\ store'[d].uploaded_at # NoTime]_vars

\* C7's case: upload_single_* on a document uploaded before has returned success,
\* and the database holds the new Id in place of the old one.
C7_Witness ==
    /\ op = "upload_single" /\ pc = "idle" /\ ret.status = "success"
    /\ attempts[1].pre.quickbooks_id # None
    /\ attempts[1].id # None
    /\ attempts[1].id # attempts[1].pre.quickbooks_id
    /\ store[doc].quickbooks_id = attempts[1].id

\* The remote calls made for a reference of a document.
CallsFor(d, kind, verb) ==
    {k \in 1..Len(calls) : calls[k].doc = d /\ calls[k].kind = kind /\ calls[k].verb = verb}

\* C8: resolve-or-create makes one lookup by name per reference; when the lookup
\* returns a match, the first (oldest) match is the reference and no create call
\* follows; when it returns none, exactly one create call follows and the entity it
\* returns is the reference.  For one invoice whose customer the platform does not
\* know and whose calls and commit all succeed, the remote calls are the customer
\* lookup, the customer create and the invoice POST, and the invoice ends with
\* quickbooks_id the returned Id and upload_error None.
C8_ResolveOrCreate ==
    /\ \A k \in 1..Len(calls) :
         LET c == calls[k]
             last == k = Len(calls)
         IN /\ c.verb = "create" =>
                 /\ k > 1
                 /\ calls[k - 1].verb = "query" /\ calls[k - 1].ok /\ calls[k - 1].n = 0
                 /\ calls[k - 1].kind = c.kind /\ calls[k - 1].doc = c.doc
                 /\ Cardinality(CallsFor(c.doc, c.kind, "create")) = 1
                 /\ c.ok /\ c.n > 0 =>
                      IF last THEN refs[c.kind] = c.n
                      ELSE calls[k + 1].doc = c.doc /\ calls[k + 1].refs[c.kind] = c.n
            /\ c.verb = "query" =>
                 /\ Cardinality(CallsFor(c.doc, c.kind, "query")) = 1
                 /\ c.ok /\ c.n = 0 =>
                      IF last THEN pc = "create"
                      ELSE /\ calls[k + 1].verb = "create"
                           /\ calls[k + 1].kind = c.kind /\ calls[k + 1].doc = c.doc
                 /\ c.ok /\ c.n > 0 =>
                      /\ CallsFor(c.doc, c.kind, "create") = {}
                      /\ IF last THEN pc # "create" /\ refs[c.kind] = 1
                         ELSE calls[k + 1].doc = c.doc /\ calls[k + 1].refs[c.kind] = 1
    /\ ( /\ pc = "idle" /\ Len(attempts) = 1
         /\ attempts[1].variant = "invoices"
         /\ attempts[1].remote = "success" /\ attempts[1].commit = "ok"
         /\ calls[1].n = 0 )
       => /\ Len(calls) = 3
          /\ calls[1].verb = "query" /\ calls[1].kind = "Customer"
          /\ calls[2].verb = "create" /\ calls[2].kind = "Customer"
          /\ calls[3].verb = "post" /\ calls[3].kind = "invoice"
          /\ calls[3].refs.Customer = calls[2].n
          /\ mem[doc].quickbooks_id = attempts[1].id
          /\ mem[doc].upload_error = NoError
          /\ store[doc] = mem[doc]

\* C8's case: upload_all of one invoice whose customer was unknown has returned
\* after a lookup without match, a create and the POST, with the returned Id.
C8_Witness ==
    /\ UploadAllReturned /\ Len(attempts) = 1
    /\ attempts[1].variant = "invoices" /\ attempts[1].remote = "success"
    /\ attempts[1].commit = "ok" /\ attempts[1].id # None
    /\ Len(calls) = 3 /\ calls[1].n = 0 /\ calls[2].verb = "create"
    /\ store[doc].quickbooks_id = attempts[1].id

\* C8's second case: a lookup returned two matches and the POST was sent with the
\* first of them, no create call made.
C8_WitnessFound ==
    /\ \E k \in 1..Len(calls) : calls[k].verb = "query" /\ calls[k].n = 2
    /\ \E k \in 1..Len(calls) : calls[k].verb = "post" /\ calls[k].refs.Customer = 1

\* The report of a batch nothing was done for.
ZeroReport(v) ==
    results[v].total = 0 /\ results[v].successful = 0 /\ results[v].failed = 0
      /\ results[v].details = << >>

\* C9: upload_all with both lists empty makes no remote call, changes no document
\* and returns a report whose totals and counts are zero and whose details are
\* empty; an empty list of one variant causes no remote call for that variant, and
\* the other variant is processed as usual.
C9_EmptySkipped ==
    [][/\ (pc = "idle" /\ op' = "upload_all" /\ now' # now
             /\ invoices' = << >> /\ bills' = << >>)
          => /\ pc' = "idle" /\ ret'.state = "returned"
             /\ calls' = << >>
             /\ store' = store /\ mem' = store
             /\ entities' = entities /\ remoteDocs' = remoteDocs
             /\ ZeroReport("invoices")' /\ ZeroReport("bills")'
             /\ results'.summary = [total_processed |-> 0, total_successful |-> 0,
                                    total_failed |-> 0]
       /\ (op' = "upload_all")
          => /\ invoices' = << >> =>
                  /\ \A k \in 1..Len(calls') : calls'[k].kind \notin {"Customer", "invoice"}
                  /\ ZeroReport("invoices")'
                  /\ pc' = "idle" => Len(results'.bills.details) = Len(bills')
             /\ bills' = << >> =>
                  /\ \A k \in 1..Len(calls') :
                       calls'[k].kind \notin {"Vendor", "Account", "bill"}
                  /\ ZeroReport("bills")'
                  /\ pc' = "idle" => Len(results'.invoices.details) = Len(invoices')
             /\ \A k \in 1..Len(calls') :
                  \E i \in 1..Len(AllDocs') : AllDocs'[i] = calls'[k].doc]_vars

\* C9's case: upload_all with both lists empty has returned.
C9_Witness ==
    /\ UploadAllReturned
    /\ invoices = << >> /\ bills = << >>
    /\ calls = << >>
    /\ results.summary.total_processed = 0

\* C9's second case: a batch of bills only has returned after remote calls.
C9_WitnessOneEmpty ==
    /\ UploadAllReturned
    /\ invoices = << >> /\ bills # << >>
    /\ calls # << >>
    /\ results.bills.total = 1

\* What one turn of the batch loop leaves of a document, by the attempt's remote
\* outcome and the outcome of the commit that follows: the state the attempt left
\* when the commit succeeded, the state from before when it failed.
BatchTurn(a) == IF a.commit = "ok" THEN a.post ELSE a.pre

\* The batch loop does what BatchTurn says (one-document batches).
BatchTurnOfBatch ==
    (UploadAllReturned /\ Len(attempts) = 1) =>
        /\ DetailAt(1).status = attempts[1].remote
        /\ mem[attempts[1].doc] = BatchTurn(attempts[1])
        /\ store[attempts[1].doc] = BatchTurn(attempts[1])

\* C10: upload_single_* ends as one turn of the batch loop would: it returns
\* normally, with the status of the remote outcome, and leaves the document, in the
\* session and in the database, as BatchTurn says, whatever the commit did.
C10_SingleAsBatch ==
    (op = "upload_single" /\ pc = "idle") =>
        /\ ret.state = "returned"
        /\ ret.status = attempts[1].remote
        /\ mem[doc] = BatchTurn(attempts[1])
        /\ store[doc] = BatchTurn(attempts[1])

\* C10 where every commit succeeds: there upload_single_* and the batch loop agree.
C10_SingleAsBatchCommitted ==
    (op = "upload_single" /\ pc = "idle" /\ attempts[1].commit = "ok") =>
        /\ ret.state = "returned"
        /\ ret.status = attempts[1].remote
        /\ mem[doc] = BatchTurn(attempts[1])
        /\ store[doc] = BatchTurn(attempts[1])

\* C11: upload_all always returns a report: for every batch, with a record whose
\* translation raises in it, no exception leaves upload_all, that record has a
\* 'failed' detail and its upload_error set, and every document of the batch has
\* been attempted.
C11_AlwaysReturns ==
    (op = "upload_all" /\ pc = "idle") =>
        /\ ret.state = "returned"
        /\ Len(attempts) = Len(AllDocs)
        /\ \A i \in 1..Len(attempts) :
             attempts[i].at = "translate" =>
                 /\ DetailAt(i).status = "failed"
                 /\ attempts[i].post.upload_error # NoError

\* The last detail entry of the loop in progress.
LastDetail(res) == res.details[Len(res.details)]

\* C12: when the document POST returns a 2xx body, the created object is
\* QueryResponse.<Type>[0] if the body has that key (and the list an element), else
\* <Type> if the body has that key: the attempt succeeds with that object's Id.  For
\* every other body create_invoice / create_bill raises: the document is recorded
\* as 'failed', its upload_error is set and its quickbooks_id is left as it was.
C12_ShapeDecides ==
    [][\A b \in PostBodies :
         Post([status |-> "ok", body |-> b]) =>
            LET a == attempts'[Len(attempts')]
                taken == IF b.hasQR /\ Len(b.qr) > 0 THEN <<b.qr[1]>>
                         ELSE IF ~b.hasQR /\ b.hasDirect THEN <<b.direct>>
                         ELSE << >>
            IN IF taken # << >>
                 THEN /\ a.remote = "success"
                      /\ mem'[doc].quickbooks_id = taken[1].Id
                      /\ mem'[doc].upload_error = NoError
                      /\ op = "upload_all" =>
                           /\ LastDetail(result').status = "success"
                           /\ LastDetail(result').quickbooks_id = taken[1].Id
                 ELSE /\ a.remote = "failed"
                      /\ mem'[doc].upload_error # NoError
                      /\ mem'[doc].upload_error = a.msg
                      /\ mem'[doc].quickbooks_id = mem[doc].quickbooks_id
                      /\ mem'[doc].uploaded_at = mem[doc].uploaded_at
                      /\ op = "upload_all" =>
                           /\ LastDetail(result').status = "failed"
                           /\ LastDetail(result').message = a.msg]_vars

\* C12's case: a 2xx body of neither shape has been answered to the POST of a
\* pending document; the attempt failed on the format and no id was assigned.
C12_Witness ==
    /\ attempts # << >>
    /\ attempts[Len(attempts)].cause = "format"
    /\ "Unexpected response format from QuickBooks" \in Parts(attempts[Len(attempts)].msg)
    /\ mem[doc].quickbooks_id = None
    /\ mem[doc].upload_error = attempts[Len(attempts)].msg

\* No two rows of a list carry the same number.
Distinct(rows) == \A i, j \in 1..Len(rows) : i # j => rows[i].number # rows[j].number

\* C13: after any sequence of insertions no two invoices share an invoice number
\* and no two bills a bill number; an insertion whose number a row of the same
\* table already has is rejected and leaves the tables as they were; hence every
\* batch the upload-all route hands to upload_all has pairwise distinct numbers
\* within each variant.
C13_NumbersUnique ==
    [][/\ \A v \in Variants : Distinct(tables'[v]) /\ Distinct(handed'[v])
       /\ \A v \in Variants, number \in Numbers :
            (ManagePost(v, number) /\ number \in NumbersOf(tables[v]))
               => tables' = tables /\ http'.status = 400]_vars

\* C13's case: an insertion was rejected for a number a row of the table has, and
\* a batch of two invoices has been handed to upload_all.
C13_Witness ==
    /\ http.status = 400
    /\ http.route = "invoices"
    /\ http.number \in NumbersOf(tables.invoices)
    /\ Len(handed.invoices) = 2

\* The rows of a table (the bills are the rows of Bills, the others are invoices).
RowsOf(v) == IF v = "bills" THEN DOMAIN store \cap Bills ELSE DOMAIN store \ Bills

\* C14: get_upload_statistics makes no remote call and changes no document; per
\* variant it reports total = the number of rows, uploaded = the number of rows
\* with a quickbooks_id, pending = total - uploaded, failed = the number of rows
\* with an upload_error, and overall the sums of the two variants; uploaded +
\* pending = total in every answer.
C14_StatisticsReadOnly ==
    [][stats' # stats =>
         /\ UNCHANGED <<store, mem, entities, remoteDocs, calls, attempts>>
         /\ \A v \in Variants :
              /\ stats'[v].total = Cardinality(RowsOf(v))
              /\ stats'[v].uploaded =
                    Cardinality({d \in RowsOf(v) : store[d].quickbooks_id # None})
              /\ stats'[v].pending = stats'[v].total - stats'[v].uploaded
              /\ stats'[v].failed =
                    Cardinality({d \in RowsOf(v) : store[d].upload_error # NoError})
              /\ stats'[v].uploaded + stats'[v].pending = stats'[v].total
         /\ \A f \in {"total", "uploaded", "pending", "failed"} :
              stats'.overall[f] = stats'.invoices[f] + stats'.bills[f]
         /\ stats'.overall.uploaded + stats'.overall.pending = stats'.overall.total]_vars

\* C14's case: the statistics were read with one row uploaded and another failed.
C14_Witness ==
    /\ stats # NoStatistics
    /\ stats.overall.total = 3
    /\ stats.overall.uploaded = 1
    /\ stats.overall.pending = 2
    /\ stats.overall.failed = 1
    /\ stats.bills.failed = 1

\* C17: when a batch is aborted, whatever the point, the abort changes no row of
\* the database and removes no remote document and no remote entity; the rows of
\* the documents whose commit had completed hold what their attempt left; and no
\* step of an operation changes the row of a document other than the one being
\* attempted, so the documents not yet attempted are as they were.
C17_AbortKeepsCommitted ==
    [][/\ ret'.state = "aborted" /\ ret.state # "aborted" =>
            /\ store' = store
            /\ entities' = entities
            /\ remoteDocs' = remoteDocs
            /\ \A i \in 1..Len(attempts') :
                 attempts'[i].commit = "ok" =>
                    store'[attempts'[i].doc] = attempts'[i].post
       /\ \A d \in DOMAIN store :
            /\ store'[d] # store[d] => d = doc /\ pc \in {"commit", "commit_ok", "commit_err"}
            /\ remoteDocs'[d] >= remoteDocs[d]
       /\ \A k \in EntityKeys : entities'[k] >= entities[k]]_vars

\* C17's case: a batch of an invoice and a bill was aborted after the invoice was
\* committed and the bill created remotely, before the bill's commit.
C17_Witness ==
    /\ ret.state = "aborted"
    /\ Len(attempts) = 2
    /\ attempts[1].remote = "success" /\ attempts[1].commit = "ok"
    /\ attempts[1].id # None
    /\ store[attempts[1].doc].quickbooks_id = attempts[1].id
    /\ attempts[2].remote = "success" /\ attempts[2].commit = "none"
    /\ remoteDocs[attempts[2].doc] = 1
    /\ store[attempts[2].doc] = Pending

\* The references a document gives by name, in the order they are resolved.
ReferencesOf(v) == IF v = "invoices" THEN <<"Customer">> ELSE <<"Vendor", "Account">>
VariantOf(d) == IF d \in Bills THEN "bills" ELSE "invoices"

\* For the k-th remote call, a document POST: the reference of that kind was
\* resolved by an earlier call for the same document, to the id the payload has.
ResolvedBefore(k, kind) ==
    /\ calls[k].refs[kind] # 0
    /\ \E j \in 1..(k - 1) :
         /\ calls[j].doc = calls[k].doc /\ calls[j].kind = kind /\ calls[j].ok
         /\ \/ calls[j].verb = "query" /\ calls[j].n > 0 /\ calls[k].refs[kind] = 1
            \/ calls[j].verb = "create" /\ calls[k].refs[kind] = calls[j].n

\* C15: every reference a document gives by name (the customer of an invoice, the
\* vendor and the expense account of a bill) is resolved before the document POST
\* is sent, and the payload sent carries the resolved ids; when a resolution fails,
\* no document POST is made for that document.
C15_ResolvedBeforePost ==
    /\ \A k \in 1..Len(calls) :
         calls[k].verb = "post" =>
             \A r \in 1..Len(ReferencesOf(VariantOf(calls[k].doc))) :
                 ResolvedBefore(k, ReferencesOf(VariantOf(calls[k].doc))[r])
    /\ \A i \in 1..Len(attempts) :
         attempts[i].at \in {"query", "create"} =>
             \A k \in 1..Len(calls) :
                 calls[k].doc = attempts[i].doc => calls[k].verb # "post"

\* C15 for the documents whose names are not empty: there it holds.
C15_ResolvedBeforePostNamed ==
    /\ \A k \in 1..Len(calls) :
         (calls[k].verb = "post" /\ calls[k].doc \notin Irregular) =>
             \A r \in 1..Len(ReferencesOf(VariantOf(calls[k].doc))) :
                 ResolvedBefore(k, ReferencesOf(VariantOf(calls[k].doc))[r])
    /\ \A i \in 1..Len(attempts) :
         attempts[i].at \in {"query", "create"} =>
             \A k \in 1..Len(calls) :
                 calls[k].doc = attempts[i].doc => calls[k].verb # "post"

\* The threads whose create call the platform carried out.
Creators == {t \in Threads : threads[t].created}

\* C16: two upload_all calls running at once for a customer the platform does not
\* know can both get an empty lookup and both create it, leaving two entities of
\* that name (C16_Witness).  Nothing but that interleaving makes them: every create
\* call adds an entity, whatever the platform holds by then, and a thread issues
\* one only after its own lookup came back empty; a thread whose lookup returned a
\* match takes the first and creates nothing.
C16_DuplicatesByRace ==
    /\ entities[<<"Customer", "Acme">>] = Cardinality(Creators)
    /\ \A t \in Threads :
         /\ (threads[t].pc = "create" \/ threads[t].created) => threads[t].seen = 0
         /\ threads[t].seen > 0 => ~threads[t].created /\ threads[t].ref = 1
    /\ entities[<<"Customer", "Acme">>] = 2 => \A t \in Threads : threads[t].seen = 0

\* C16's case: both batches have returned, each after an empty lookup and a create
\* of its own; the platform holds two customers of the name, and the two invoices
\* were posted with different customer ids.
C16_Witness ==
    /\ \A t \in Threads : threads[t].pc = "done" /\ threads[t].status = "success"
    /\ \A t \in Threads : threads[t].seen = 0 /\ threads[t].created
    /\ entities[<<"Customer", "Acme">>] = 2
    /\ threads[1].ref # threads[2].ref
    /\ threads[1].doc # threads[2].doc

\* A sync state that differs from another in upload_error at most.
SameButError(a, b) == a.quickbooks_id = b.quickbooks_id /\ a.uploaded_at = b.uploaded_at

\* C18: a failed attempt, in the batch loop or in upload_single_*, changes only
\* upload_error: the except branch leaves quickbooks_id and uploaded_at as they
\* were before the attempt, in the session and, after the commit, in the database;
\* so does an upload_single_* that returns 'failed'.
C18_FailureKeepsId ==
    \A i \in 1..Len(attempts) :
        LET a == attempts[i]
        IN /\ a.remote = "failed" =>
                /\ a.post = [a.pre EXCEPT !.upload_error = a.msg]
                /\ (a.commit # "none" \/ pc = "idle") =>
                      /\ SameButError(store[a.doc], a.pre)
                      /\ SameButError(mem[a.doc], a.pre)
           /\ (op = "upload_single" /\ pc = "idle" /\ ret.status = "failed") =>
                /\ SameButError(store[a.doc], a.pre)
                /\ SameButError(mem[a.doc], a.pre)

\* C18's case: an attempt on an uploaded document failed and was committed; the
\* row has the id and the time of the earlier success, and the new error.
C18_Witness ==
    /\ attempts # << >>
    /\ attempts[1].remote = "failed" /\ attempts[1].commit = "ok"
    /\ attempts[1].pre.quickbooks_id = "Q1"
    /\ store[attempts[1].doc].quickbooks_id = "Q1"
    /\ store[attempts[1].doc].uploaded_at # NoTime
    /\ store[attempts[1].doc].upload_error = attempts[1].msg

\* The number of lookups made for a reference of the document of an attempt.
LookupsOf(a, kind) == Cardinality(CallsFor(a.doc, kind, "query"))

\* The reference of that kind was resolved for the document.
WasResolved(d, kind) ==
    \E k \in 1..Len(calls) :
        /\ calls[k].doc = d /\ calls[k].kind = kind /\ calls[k].ok
        /\ calls[k].verb \in {"query", "create"} /\ calls[k].n > 0

\* C19: references are resolved afresh for every document: for every document
\* attempted, one lookup is made for each of its references (the customer of an
\* invoice; the vendor and the expense account of a bill), whatever the earlier
\* documents of the batch resolved.
C19_FreshLookups ==
    \A i \in 1..Len(attempts) :
        \A r \in 1..Len(ReferencesOf(attempts[i].variant)) :
            LookupsOf(attempts[i], ReferencesOf(attempts[i].variant)[r]) = 1

\* C19 amended: for every document attempted one lookup is made for its first
\* reference (customer, vendor), whatever the earlier documents resolved, unless
\* the document could not be translated or the name is empty, when none is made;
\* for a bill one account lookup is made when its vendor reference did not fail,
\* and none when it did.
C19_FreshLookupsReached ==
    \A i \in 1..Len(attempts) :
        LET a == attempts[i]
            first == FirstStage(a.variant)
        IN /\ LookupsOf(a, first) =
                 IF a.at # "translate" /\ Resolves(a.doc, first) THEN 1 ELSE 0
           /\ a.variant = "bills" =>
                 LookupsOf(a, "Account") =
                    IF a.at # "translate"
                         /\ (Resolves(a.doc, "Vendor") => WasResolved(a.doc, "Vendor"))
                      THEN 1 ELSE 0

\* C19's case: a batch of two invoices of the same customer has returned; the
\* first created the customer, and a lookup was made again for the second.
C19_Witness ==
    /\ UploadAllReturned
    /\ Len(invoices) = 2
    /\ Cardinality({k \in 1..Len(calls) :
                       calls[k].verb = "query" /\ calls[k].kind = "Customer"}) = 2
    /\ calls[1].verb = "query" /\ calls[1].n = 0
    /\ calls[2].verb = "create" /\ calls[2].ok
    /\ \E k \in 1..Len(calls) :
          calls[k].verb = "query" /\ calls[k].doc = invoices[2] /\ calls[k].n = 1

\* C20: when upload_all returns, for every document the report lists as 'success'
\* with quickbooks_id r, the row of the document has quickbooks_id r, whatever the
\* commits did.
C20_ReportMatchesStore ==
    UploadAllReturned =>
        \A i \in 1..Len(AllDocs) :
            DetailAt(i).status = "success" =>
                store[AllDocs[i]].quickbooks_id = DetailAt(i).quickbooks_id

\* C20 amended: when upload_all returns, a document the report lists as 'success'
\* with quickbooks_id r has quickbooks_id r in its row if the commit after its
\* attempt succeeded; if that commit failed, its row is as it was before the
\* attempt, while the report still lists it as 'success' with r.
C20_ReportMatchesCommitted ==
    UploadAllReturned =>
        \A i \in 1..Len(AllDocs) :
            DetailAt(i).status = "success" =>
                /\ attempts[i].commit = "ok" =>
                      store[AllDocs[i]].quickbooks_id = DetailAt(i).quickbooks_id
                /\ attempts[i].commit = "failed" =>
                      /\ store[AllDocs[i]] = attempts[i].pre
                      /\ DetailAt(i).quickbooks_id = attempts[i].id

\* C20's case: a batch of two has returned; the first document succeeded and its
\* commit failed, the second was committed: the report has the first one's id, the
\* row has not.
C20_Witness ==
    /\ UploadAllReturned
    /\ Len(AllDocs) = 2
    /\ DetailAt(1).status = "success" /\ DetailAt(1).quickbooks_id = "Q1"
    /\ attempts[1].commit = "failed"
    /\ attempts[2].commit = "ok" /\ attempts[2].remote = "success"
    /\ store[AllDocs[1]].quickbooks_id = None
    /\ store[AllDocs[2]].quickbooks_id = DetailAt(2).quickbooks_id

\* C21: over a sequence of upload-all requests, each over the rows whose committed
\* quickbooks_id is NULL, the platform creates at most one remote document for a
\* local document, whatever the commits and the response bodies do.
C21_CreatedOnce == \A d \in DOMAIN remoteDocs : remoteDocs[d] <= 1

\* What the selection of the route does give: a document whose committed row holds
\* a quickbooks_id is not posted by a request.
C21_UploadedNotPosted ==
    [][\A resp \in PostResponses : Post(resp) => store[doc].quickbooks_id = None]_vars

\* The create calls of the operation for entities of a kind (every document names
\* the same entity of a kind).
CreatesOf(kind) == {k \in 1..Len(calls) : calls[k].verb = "create" /\ calls[k].kind = kind}
CreateOutcomes == {"ok", "nokey"} \cup Causes

\* C22: within one upload_all that runs alone, at most one create call is issued
\* for a (kind, name), however many documents of the batch name it.
C22_OneCreateCall ==
    op = "upload_all" => \A key \in EntityKeys : Cardinality(CreatesOf(key[1])) <= 1

\* C22 amended: a create call is issued for a (kind, name) only while the platform
\* holds no entity of that name, and creates at most one; so within one upload_all
\* at most one create call per (kind, name) is carried out, every document after it
\* finds the entity by its lookup, and a further create call for the name is issued
\* only when every earlier one failed without creating the entity.
C22_OneCreation ==
    [][\A out \in CreateOutcomes :
          Create(out) =>
             LET key == <<stage, RefName(doc, stage)>>
             IN /\ entities[key] = 0
                /\ entities'[key] <= 1
                /\ \A k \in CreatesOf(stage) : ~calls[k].ok /\ calls[k].doc # doc]_vars

\* C22's case: two bills of one batch name a vendor and an account the platform
\* did not know; the first bill created both, the second found both by its lookups
\* and made no create call.
C22_Witness ==
    /\ UploadAllReturned
    /\ bills = <<"b1", "b2">>
    /\ \A kind \in {"Vendor", "Account"} :
          /\ \E k \in CallsFor("b1", kind, "create") : calls[k].ok /\ calls[k].n = 1
          /\ \E k \in CallsFor("b2", kind, "query") : calls[k].ok /\ calls[k].n = 1
          /\ CallsFor("b2", kind, "create") = {}
          /\ entities[<<kind, RefName("b1", kind)>>] = 1
    /\ \A i \in 1..2 : attempts[i].remote = "success"

\* A sync state that has a quickbooks_id has an uploaded_at.
Timed(state) == state.quickbooks_id # None => state.uploaded_at # NoTime

\* C23: from rows created pending, every row and every session object that has a
\* quickbooks_id has an uploaded_at; a step that changes the quickbooks_id of a
\* session object to an Id assigns uploaded_at (the time of the step) with it, or
\* restores the committed row; no step clears the uploaded_at of a row, and the
\* uploaded_at of a session object is cleared only by restoring a row that has none.
C23_IdImpliesTime ==
    /\ [](\A d \in DOMAIN store : Timed(store[d]) /\ Timed(mem[d]))
    /\ [][\A d \in DOMAIN store :
            /\ (mem'[d].quickbooks_id # mem[d].quickbooks_id /\ mem'[d].quickbooks_id # None) =>
                  \/ mem'[d].uploaded_at = now /\ now # NoTime
                  \/ SameButError(mem'[d], store[d])
            /\ store[d].uploaded_at # NoTime => store'[d].uploaded_at # NoTime
            /\ (mem[d].uploaded_at # NoTime /\ mem'[d].uploaded_at = NoTime) =>
                  SameButError(mem'[d], store[d])]_vars

\* C23's case: a document uploaded and committed by one operation was attempted
\* again by upload_single_*, which failed and committed the error: the row still
\* has the Id and the time of the first upload.
C23_Witness ==
    /\ op = "upload_single" /\ pc = "idle" /\ ret.status = "failed"
    /\ attempts[1].pre.quickbooks_id # None
    /\ attempts[1].pre.uploaded_at # NoTime
    /\ store[doc].quickbooks_id = attempts[1].pre.quickbooks_id
    /\ store[doc].uploaded_at = attempts[1].pre.uploaded_at
    /\ store[doc].uploaded_at < now
    /\ store[doc].upload_error # NoError

====
